---- MODULE Spec2Model ----
(***************************************************************************)
(* Wild Tree bot (wild_tree_bot_release.py): the users table, the          *)
(* process-wide sun cooldown attribute and the message handlers, each      *)
(* handler split at its await points so that handlers of concurrently      *)
(* dispatched messages interleave the way the asyncio event loop lets      *)
(* them.                                                                   *)
(***************************************************************************)
EXTENDS Integers, Sequences, FiniteSets, TLC

(* ---------------------------- program constants ------------------------ *)
WATER_COOLDOWN == 300
DAILY_COOLDOWN == 24 * 3600
SUN_COOLDOWN == 600
MAX_LEVEL == 20

(* ------------------------------- bounds -------------------------------- *)
\* number of messages dispatched in one behaviour when handlers overlap
MaxOps == 2
\* number of messages dispatched in one behaviour when they come one by one
SeqOps == 3
\* messages handled in the runs that start from LoopTables
LoopOps == 1
\* reading of time.time() when the process starts
Clock0 == 1700000000

\* the coroutines the dispatcher runs at the same time
Tasks == {1, 2}
\* Telegram user ids
Users == {1, 2}
\* how far time.time() may have advanced between two readings
Deltas == {0, 1}

\* message texts, by the handler they select
MutKinds == {"water", "sun", "daily"}
ReadKinds == {"status", "profile"}
StaticKinds == {"roadmap", "staking", "fallback"}
Kinds == MutKinds \cup ReadKinds \cup StaticKinds \cup {"start"}

VARIABLES
    users,      \* rows of table users
    last_sun,   \* attribute handler_sun.last_sun (0 while unset)
    clock,      \* last value returned by time.time()
    pc,         \* pc[t]: the await point task t is suspended at
    m,          \* m[t]: the message task t handles
    u,          \* u[t]: the tuple get_user returned to task t
    loc,        \* loc[t]: the unpacked locals level, exp, sun, water
    now,        \* now[t]: the local now
    replies,    \* replies[t]: the m.answer calls of the current handler
    hist,       \* cooldown decisions taken so far, in order
    ops         \* messages dispatched so far

vars == <<users, last_sun, clock, pc, m, u, loc, now, replies, hist, ops>>

(* ------------------------------ leveling -------------------------------- *)
\* ceil(5 * level ** 1.6) as CPython evaluates it, for level = 1 .. 21
ExpTable ==
    <<5, 16, 29, 46, 66, 88, 113, 140, 169, 200, 232,
      267, 303, 342, 381, 423, 466, 510, 556, 604, 653>>

exp_needed_for(level) == ExpTable[level]

(* ------------------------------ database -------------------------------- *)
NoRow == [user_id |-> 0]

NewRow(uid, t) ==
    [user_id |-> uid, created |-> t, last_water |-> 0, last_daily |-> 0,
     level |-> 1, exp |-> 0, sun |-> 0, water |-> 0]

\* SELECT ... WHERE user_id=? followed by fetchone()
HasRow(tbl, uid) == \E r \in tbl : r.user_id = uid
get_user(tbl, uid) ==
    IF HasRow(tbl, uid) THEN CHOOSE r \in tbl : r.user_id = uid ELSE NoRow

\* INSERT INTO users: user_id is the PRIMARY KEY, a second row is refused
InsertOkNoKey(tbl, uid) == TRUE
InsertOk(tbl, uid) == ~HasRow(tbl, uid)
Insert(tbl, row) == tbl \cup {row}

\* UPDATE users SET <fields of patch> WHERE user_id=?
PatchRow(r, patch) ==
    [f \in DOMAIN r |-> IF f \in DOMAIN patch THEN patch[f] ELSE r[f]]
update_user(tbl, uid, patch) ==
    {IF r.user_id = uid THEN PatchRow(r, patch) ELSE r : r \in tbl}

(* ------------------------------ cooldowns ------------------------------- *)
Cooldown(kind) ==
    CASE kind = "water" -> WATER_COOLDOWN
      [] kind = "sun" -> SUN_COOLDOWN
      [] kind = "daily" -> DAILY_COOLDOWN

\* the timestamp the handler compares now with
LastUse(kind, row, lastSun) ==
    CASE kind = "water" -> row.last_water
      [] kind = "sun" -> lastSun
      [] kind = "daily" -> row.last_daily

BlockedLe(kind, last, t) == t - last <= Cooldown(kind)
Blocked(kind, last, t) == t - last < Cooldown(kind)

RemainElapsed(kind, last, t) == t - last
Remain(kind, last, t) == Cooldown(kind) - (t - last)

(* ------------------------------- rewards -------------------------------- *)
RewardSwapped(kind, l) ==
    CASE kind = "water" ->
            [l EXCEPT !.water = @ + 1, !.exp = @ + 2]
      [] kind = "sun" ->
            [l EXCEPT !.sun = @ + 1, !.exp = @ + 2]
      [] kind = "daily" ->
            [l EXCEPT !.sun = @ + (1 + l.level \div 6),
                      !.water = @ + (1 + l.level \div 5),
                      !.exp = @ + (5 + l.level)]

\* the locals after the reward lines of a successful handler
Reward(kind, l) ==
    CASE kind = "water" ->
            [l EXCEPT !.water = @ + 1, !.exp = @ + 2]
      [] kind = "sun" ->
            [l EXCEPT !.sun = @ + 1, !.exp = @ + 2]
      [] kind = "daily" ->
            [l EXCEPT !.sun = @ + (1 + l.level \div 5),
                      !.water = @ + (1 + l.level \div 6),
                      !.exp = @ + (5 + l.level)]

RewardPatchStamp(kind, l, t) ==
    CASE kind = "water" ->
            [water |-> l.water, exp |-> l.exp, last_daily |-> t]
      [] kind = "sun" ->
            [sun |-> l.sun, exp |-> l.exp]
      [] kind = "daily" ->
            [sun |-> l.sun, water |-> l.water, exp |-> l.exp, last_daily |-> t]

\* the keyword arguments of the handler's update_user call
RewardPatch(kind, l, t) ==
    CASE kind = "water" ->
            [water |-> l.water, exp |-> l.exp, last_water |-> t]
      [] kind = "sun" ->
            [sun |-> l.sun, exp |-> l.exp]
      [] kind = "daily" ->
            [sun |-> l.sun, water |-> l.water, exp |-> l.exp, last_daily |-> t]

OkText(kind) ==
    CASE kind = "water" -> "water_ok"
      [] kind = "sun" -> "sun_ok"
      [] kind = "daily" -> "daily_ok"

LevelUpCondNoCap(l) == l.exp >= exp_needed_for(l.level)
LevelUpCondLe(l) == l.level <= MAX_LEVEL /\ l.exp >= exp_needed_for(l.level)
LevelUpCondGt(l) == l.level < MAX_LEVEL /\ l.exp > exp_needed_for(l.level)

LevelUpBodyNextNeed(l) ==
    [l EXCEPT !.exp = @ - exp_needed_for(l.level + 1), !.level = @ + 1,
              !.sun = @ + 1, !.water = @ + 1]
LevelUpBodyReset(l) ==
    [l EXCEPT !.exp = 0, !.level = @ + 1, !.sun = @ + 1, !.water = @ + 1]
LevelUpBodyTwice(l) ==
    [l EXCEPT !.exp = @ - 2 * exp_needed_for(l.level), !.level = @ + 1,
              !.sun = @ + 1, !.water = @ + 1]
LevelUpBodyTwoSun(l) ==
    [l EXCEPT !.exp = @ - exp_needed_for(l.level), !.level = @ + 1,
              !.sun = @ + 2, !.water = @ + 1]

\* the while condition and the loop body of check_level_up
LevelUpCond(l) == l.level < MAX_LEVEL /\ l.exp >= exp_needed_for(l.level)
LevelUpBody(l) ==
    [l EXCEPT !.exp = @ - exp_needed_for(l.level), !.level = @ + 1,
              !.sun = @ + 1, !.water = @ + 1]
\* the keyword arguments of the update_user call that ends check_level_up
LevelPatch(l) ==
    [level |-> l.level, exp |-> l.exp, sun |-> l.sun, water |-> l.water]

\* uid, created, last_water, last_daily, level, exp, sun, water = u
Locals(row) ==
    [level |-> row.level, exp |-> row.exp, sun |-> row.sun,
     water |-> row.water, remain |-> 0]
NoLocals == [level |-> 0, exp |-> 0, sun |-> 0, water |-> 0, remain |-> 0]
NoMsg == [uid |-> 0, text |-> "none"]

Reply(text, n) == [text |-> text, n |-> n]

(* ---------------------------- initial state ----------------------------- *)
\* Rows a restarted process can find in wildtree.db.  Experience above the
\* requirement of the level is left by handlers that stopped between their
\* reward write and the write of check_level_up.
StoredRow(lw, ld, lv, e, s, w) ==
    [user_id |-> 1, created |-> Clock0 - 2 * DAILY_COOLDOWN,
     last_water |-> lw, last_daily |-> ld,
     level |-> lv, exp |-> e, sun |-> s, water |-> w]

InitTables ==
    { {},
      {StoredRow(Clock0 - 298, 0, 1, 4, 1, 1)},
      {StoredRow(Clock0 - 400, 0, 1, 19, 2, 3)},
      {StoredRow(Clock0 - 400, Clock0 - 86399, 10, 0, 12, 14)},
      {StoredRow(Clock0 - 400, 0, 18, 1064, 20, 25)},
      {StoredRow(0, Clock0 - 86400, 20, 700, 40, 40)} }

\* "raised": the handler ended by an exception of its own code
Running(t) == pc[t] \notin {"idle", "done", "failed", "raised"}

Init ==
    /\ users \in InitTables
    /\ last_sun = 0
    /\ clock = Clock0
    /\ pc = [t \in Tasks |-> "idle"]
    /\ m = [t \in Tasks |-> NoMsg]
    /\ u = [t \in Tasks |-> NoRow]
    /\ loc = [t \in Tasks |-> NoLocals]
    /\ now = [t \in Tasks |-> 0]
    /\ replies = [t \in Tasks |-> <<>>]
    /\ hist = <<>>
    /\ ops = 0

(* ------------------------------ handlers -------------------------------- *)
\* the dispatcher starts the handler that matches the text of a message; the
\* frames of the handlers that have returned are dropped
Fresh(f, t, blank, v) ==
    [s \in Tasks |-> IF s = t THEN v ELSE IF Running(s) THEN f[s] ELSE blank]

\* the first await of the handler the dispatcher selects for a message:
\* roadmap, staking and fallback go straight to m.answer, every other handler
\* calls ensure_user first
EntryAlwaysEnsure(k) == "ensure_select"
Entry(k) == IF k \in StaticKinds THEN "answer_static" ELSE "ensure_select"

Dispatch(t, senders, limit) ==
    /\ ~Running(t)
    /\ \A s \in Tasks : s < t => Running(s)
    /\ ops < limit
    /\ \E uid \in senders, k \in Kinds :
          /\ m' = Fresh(m, t, NoMsg, [uid |-> uid, text |-> k])
          /\ pc' = Fresh(pc, t, "idle", Entry(k))
    /\ u' = Fresh(u, t, NoRow, NoRow)
    /\ loc' = Fresh(loc, t, NoLocals, NoLocals)
    /\ now' = Fresh(now, t, 0, 0)
    /\ replies' = Fresh(replies, t, <<>>, <<>>)
    /\ ops' = ops + 1
    /\ UNCHANGED <<users, last_sun, clock, hist>>

\* messages of any user, handled while earlier handlers are still running
Start(t) == Dispatch(t, Users, MaxOps)
\* messages of one user, handled while earlier handlers are still running
StartOne(t) == Dispatch(t, {1}, MaxOps)
\* a message of one user that arrives when every earlier handler has returned
StartSeq(t) == (\A s \in Tasks : ~Running(s)) /\ Dispatch(t, {1}, SeqOps)

\* where a handler continues when ensure_user returns
AfterEnsure(k) == IF k = "start" THEN "answer_start" ELSE "get_user"

\* ensure_user: the SELECT and fetchone
EnsureSelect(t) ==
    /\ pc[t] = "ensure_select"
    /\ pc' = [pc EXCEPT ![t] =
                IF HasRow(users, m[t].uid) THEN AfterEnsure(m[t].text)
                ELSE "ensure_insert"]
    /\ UNCHANGED <<users, last_sun, clock, m, u, loc, now, replies, hist, ops>>

\* ensure_user: the INSERT and commit; sqlite raises IntegrityError when the
\* primary key is already there
EnsureInsert(t) ==
    /\ pc[t] = "ensure_insert"
    /\ \E d \in Deltas :
          /\ clock' = clock + d
          /\ IF InsertOk(users, m[t].uid)
             THEN /\ users' = Insert(users, NewRow(m[t].uid, clock'))
                  /\ pc' = [pc EXCEPT ![t] = AfterEnsure(m[t].text)]
             ELSE /\ users' = users
                  /\ pc' = [pc EXCEPT ![t] = "raised"]
    /\ UNCHANGED <<last_sun, m, u, loc, now, replies, hist, ops>>

\* u = await get_user(...) and the unpacking of the tuple, in a handler
GetUser(t) ==
    /\ pc[t] = "get_user"
    /\ u' = [u EXCEPT ![t] = get_user(users, m[t].uid)]
    /\ IF u'[t] = NoRow
       THEN /\ pc' = [pc EXCEPT ![t] = "raised"]
            /\ loc' = loc
       ELSE /\ pc' = [pc EXCEPT ![t] =
                        IF m[t].text \in ReadKinds THEN "answer_info"
                        ELSE "check"]
            /\ loc' = [loc EXCEPT ![t] = Locals(u'[t])]
    /\ UNCHANGED <<users, last_sun, clock, m, now, replies, hist, ops>>

\* now = time.time(), the cooldown test and, when it passes, the reward lines
\* up to the update_user call
Check(t) ==
    /\ pc[t] = "check"
    /\ \E d \in Deltas :
         LET k == m[t].text
             tm == clock + d
             last == LastUse(k, u[t], last_sun)
         IN  /\ clock' = tm
             /\ now' = [now EXCEPT ![t] = tm]
             /\ IF Blocked(k, last, tm)
                THEN /\ loc' = [loc EXCEPT ![t].remain = Remain(k, last, tm)]
                     /\ pc' = [pc EXCEPT ![t] = "answer_wait"]
                     /\ last_sun' = last_sun
                     /\ hist' = Append(hist,
                           [uid |-> m[t].uid, kind |-> k, now |-> tm,
                            res |-> "blocked",
                            remain |-> Remain(k, last, tm)])
                ELSE /\ loc' = [loc EXCEPT ![t] = Reward(k, loc[t])]
                     /\ pc' = [pc EXCEPT ![t] = "update"]
                     /\ last_sun' = IF k = "sun" THEN tm ELSE last_sun
                     /\ hist' = Append(hist,
                           [uid |-> m[t].uid, kind |-> k, now |-> tm,
                            res |-> "ok", remain |-> 0])
    /\ UNCHANGED <<users, m, u, replies, ops>>

\* the update_user call of a successful water, sun or daily handler
Update(t) ==
    /\ pc[t] = "update"
    /\ users' = update_user(users, m[t].uid,
                            RewardPatch(m[t].text, loc[t], now[t]))
    /\ pc' = [pc EXCEPT ![t] = "answer_ok"]
    /\ UNCHANGED <<last_sun, clock, m, u, loc, now, replies, hist, ops>>

\* the m.answer call of a handler
AnswerText(t) ==
    CASE pc[t] = "answer_ok" -> Reply(OkText(m[t].text), 0)
      [] pc[t] = "answer_wait" -> Reply("wait", loc[t].remain)
      [] pc[t] = "answer_info" -> Reply("info", exp_needed_for(loc[t].level))
      [] pc[t] = "answer_start" -> Reply("welcome", 0)
      [] pc[t] = "answer_static" -> Reply(m[t].text, 0)

Answer(t) ==
    /\ pc[t] \in {"answer_ok", "answer_wait", "answer_info",
                  "answer_start", "answer_static"}
    /\ replies' = [replies EXCEPT ![t] = Append(@, AnswerText(t))]
    /\ pc' = [pc EXCEPT ![t] = IF pc[t] = "answer_ok" THEN "clu_get" ELSE "done"]
    /\ UNCHANGED <<users, last_sun, clock, m, u, loc, now, hist, ops>>

\* check_level_up: u = await get_user(uid) and the unpacking
CluGet(t) ==
    /\ pc[t] = "clu_get"
    /\ u' = [u EXCEPT ![t] = get_user(users, m[t].uid)]
    /\ IF u'[t] = NoRow
       THEN /\ pc' = [pc EXCEPT ![t] = "raised"]
            /\ loc' = loc
       ELSE /\ pc' = [pc EXCEPT ![t] = "clu_loop"]
            /\ loc' = [loc EXCEPT ![t] = Locals(u'[t])]
    /\ UNCHANGED <<users, last_sun, clock, m, now, replies, hist, ops>>

\* check_level_up: one test of the while condition; when it holds, the body
\* up to and including its m.answer
CluLoop(t) ==
    /\ pc[t] = "clu_loop"
    /\ IF LevelUpCond(loc[t])
       THEN /\ loc' = [loc EXCEPT ![t] = LevelUpBody(loc[t])]
            /\ replies' = [replies EXCEPT ![t] =
                             Append(@, Reply("levelup", loc'[t].level))]
            /\ pc' = pc
       ELSE /\ pc' = [pc EXCEPT ![t] = "clu_update"]
            /\ UNCHANGED <<loc, replies>>
    /\ UNCHANGED <<users, last_sun, clock, m, u, now, hist, ops>>

\* check_level_up: the closing update_user call
CluUpdate(t) ==
    /\ pc[t] = "clu_update"
    /\ users' = update_user(users, m[t].uid, LevelPatch(loc[t]))
    /\ pc' = [pc EXCEPT ![t] = "done"]
    /\ UNCHANGED <<last_sun, clock, m, u, loc, now, replies, hist, ops>>

\* an await raises (the Telegram request or the sqlite call fails) or the
\* process is stopped: the handler goes no further
Abort(t) ==
    /\ Running(t)
    /\ pc' = [pc EXCEPT ![t] = "failed"]
    /\ u' = [u EXCEPT ![t] = NoRow]
    /\ loc' = [loc EXCEPT ![t] = NoLocals]
    /\ now' = [now EXCEPT ![t] = 0]
    /\ replies' = [replies EXCEPT ![t] = <<>>]
    /\ UNCHANGED <<users, last_sun, clock, m, hist, ops>>

\* the handler of task t goes on from its await
Run(t) ==
    \/ EnsureSelect(t)
    \/ EnsureInsert(t)
    \/ GetUser(t)
    \/ Check(t)
    \/ Update(t)
    \/ Answer(t)
    \/ CluGet(t)
    \/ CluLoop(t)
    \/ CluUpdate(t)

Step(t) == Run(t) \/ Abort(t)

Next == \E t \in Tasks : Start(t) \/ Step(t)
NextOne == \E t \in Tasks : StartOne(t) \/ Step(t)
NextSeq == \E t \in Tasks : StartSeq(t) \/ Step(t)

InitFresh == Init /\ users = {}

\* any users, overlapping handlers, an empty database
Spec == InitFresh /\ [][Next]_vars
\* one user, overlapping handlers
SpecOne == Init /\ [][NextOne]_vars
\* one user, one handler at a time
SpecSeq == Init /\ [][NextSeq]_vars

\* check_level_up over the rows it can be handed: every level, with an
\* experience below, at and far above the requirement of the level (4352 is
\* the sum of exp_needed_for over levels 1 .. 19)
LoopExps == {0, 4, 700, 4352}
LoopTables ==
    { {} } \cup { {StoredRow(0, 0, lv, e, lv, lv)} :
                    lv \in 1 .. MAX_LEVEL, e \in LoopExps }

InitLoop ==
    /\ users \in LoopTables
    /\ last_sun = 0
    /\ clock = Clock0
    /\ pc = [t \in Tasks |-> "idle"]
    /\ m = [t \in Tasks |-> NoMsg]
    /\ u = [t \in Tasks |-> NoRow]
    /\ loc = [t \in Tasks |-> NoLocals]
    /\ now = [t \in Tasks |-> 0]
    /\ replies = [t \in Tasks |-> <<>>]
    /\ hist = <<>>
    /\ ops = 0

StartLoop(t) == (\A s \in Tasks : ~Running(s)) /\ Dispatch(t, {1}, LoopOps)
NextLoop == \E t \in Tasks : StartLoop(t) \/ Step(t)

\* one user, one handler at a time; the event loop resumes a handler whose
\* await has completed, so a handler that can go on eventually does
SpecLoop ==
    InitLoop /\ [][NextLoop]_vars /\ \A t \in Tasks : WF_vars(Run(t))

(* ------------------------------ properties ------------------------------ *)
Stored(uid) == get_user(users, uid)
LastHist == hist[Len(hist)]

\* C1: every stored row has a level between 1 and MAX_LEVEL, whatever the
\* interleaving of the handlers that wrote it
C1_LevelInRange ==
    \A r \in users : 1 <= r.level /\ r.level <= MAX_LEVEL

\* a handler whose check_level_up took the stored level from below MAX_LEVEL
\* to MAX_LEVEL
C1_Witness ==
    \E t \in Tasks :
        /\ pc[t] = "done" /\ m[t].text \in MutKinds
        /\ Len(replies[t]) > 1
        /\ u[t].level < MAX_LEVEL
        /\ Stored(m[t].uid).level = MAX_LEVEL

\* the fields of a row that C2 compares
View(r) ==
    [level |-> r.level, exp |-> r.exp, sun |-> r.sun, water |-> r.water,
     last_water |-> r.last_water, last_daily |-> r.last_daily]

\* a whole check_level_up run on a row, nothing else running
RECURSIVE Rollover(_)
Rollover(l) == IF LevelUpCond(l) THEN Rollover(LevelUpBody(l)) ELSE l

\* a whole water, sun or daily handler run on <<row, last_sun>> at time tm,
\* nothing else running
RunAlone(st, k, tm) ==
    IF Blocked(k, LastUse(k, st.row, st.ls), tm)
    THEN st
    ELSE LET rewarded == Reward(k, Locals(st.row))
             r1 == PatchRow(st.row, RewardPatch(k, rewarded, tm))
             r2 == PatchRow(r1, LevelPatch(Rollover(Locals(r1))))
         IN  [row |-> r2, ls |-> IF k = "sun" THEN tm ELSE st.ls]

SerialRow(uid, k1, n1, k2, n2) ==
    RunAlone(RunAlone([row |-> NewRow(uid, 0), ls |-> 0], k1, n1), k2, n2).row

\* C2: when two water, sun or daily handlers of one user have both returned,
\* the stored row is the row that running them one after the other, in one
\* of the two orders, produces
C2_Serializable ==
    \A t1, t2 \in Tasks :
        ( /\ t1 < t2
          /\ ops = 2
          /\ pc[t1] = "done" /\ pc[t2] = "done"
          /\ m[t1].uid = m[t2].uid
          /\ m[t1].text \in MutKinds /\ m[t2].text \in MutKinds )
        => View(Stored(m[t1].uid)) \in
             { View(SerialRow(m[t1].uid, m[t1].text, now[t1], m[t2].text, now[t2])),
               View(SerialRow(m[t1].uid, m[t2].text, now[t2], m[t1].text, now[t1])) }

\* C3: a sun handler is blocked exactly when the same user had a successful
\* sun handler less than SUN_COOLDOWN seconds earlier
C3_SunCooldownPerUser ==
    \A i \in 1..Len(hist) :
        hist[i].kind = "sun" =>
          ( hist[i].res = "blocked" <=>
              \E j \in 1..(i - 1) :
                  /\ hist[j].kind = "sun" /\ hist[j].res = "ok"
                  /\ hist[j].uid = hist[i].uid
                  /\ hist[i].now - hist[j].now < SUN_COOLDOWN )

\* the stored timestamp a water or daily handler is gated by
StoredLast(k, uid) == LastUse(k, Stored(uid), 0)

\* C4: with one handler at a time, a water or daily handler takes the
\* blocked branch exactly when now minus the stored timestamp of its action
\* is below the cooldown
C4_CooldownBoundary ==
    \A t \in Tasks :
        (pc[t] \in {"update", "answer_wait"} /\ m[t].text \in {"water", "daily"})
        => ( pc[t] = "answer_wait" <=>
               now[t] - StoredLast(m[t].text, m[t].uid) < Cooldown(m[t].text) )

\* a water or daily handler let through with now - T equal to the cooldown
C4_Witness ==
    \E t \in Tasks :
        /\ pc[t] = "update" /\ m[t].text \in {"water", "daily"}
        /\ StoredLast(m[t].text, m[t].uid) > 0
        /\ now[t] - StoredLast(m[t].text, m[t].uid) = Cooldown(m[t].text)

\* C5: no stored row below MAX_LEVEL holds experience that reaches the
\* requirement of its level
C5_AtomicRollover ==
    \A r \in users : r.level < MAX_LEVEL => r.exp < exp_needed_for(r.level)

\* C6: no step lowers the stored level, sun or water of a user
C6_Monotone ==
    [][ \A uid \in Users :
          HasRow(users, uid) =>
            /\ Stored(uid)'.level >= Stored(uid).level
            /\ Stored(uid)'.sun >= Stored(uid).sun
            /\ Stored(uid)'.water >= Stored(uid).water ]_vars

\* C7: the row the closing write of check_level_up leaves is at MAX_LEVEL
\* or holds less experience than its level requires
C7_RolloverComplete ==
    [][ \A t \in Tasks :
          (pc[t] = "clu_update" /\ pc'[t] = "done") =>
            \/ Stored(m[t].uid)'.level = MAX_LEVEL
            \/ Stored(m[t].uid)'.exp < exp_needed_for(Stored(m[t].uid)'.level) ]_vars

\* a check_level_up that went up two levels or more and stopped below
\* MAX_LEVEL
C7_Witness ==
    \E t \in Tasks :
        /\ pc[t] = "done" /\ m[t].text \in MutKinds
        /\ loc[t].level >= u[t].level + 2
        /\ loc[t].level < MAX_LEVEL
        /\ Stored(m[t].uid).level = loc[t].level
        /\ Stored(m[t].uid).exp = loc[t].exp

\* C8: a user id never has two rows, has one once ensure_user has returned,
\* and an ensure_user step taken when the row exists changes no row
RowsOf(uid) == {r \in users : r.user_id = uid}
PastEnsure(t) == Running(t) /\ pc[t] \notin {"ensure_select", "ensure_insert", "answer_static"}

C8_OneRow ==
    /\ \A uid \in Users : Cardinality(RowsOf(uid)) <= 1
    /\ \A t \in Tasks : PastEnsure(t) => Cardinality(RowsOf(m[t].uid)) = 1

C8_NoOverwrite ==
    \A t \in Tasks :
        ( /\ pc[t] \in {"ensure_select", "ensure_insert"}
          /\ pc'[t] # pc[t]
          /\ HasRow(users, m[t].uid) )
        => users' = users

C8_EnsureIdempotent == []C8_OneRow /\ [][C8_NoOverwrite]_vars

\* an INSERT of ensure_user refused because another handler has inserted
\* the row since the SELECT
C8_Witness ==
    \E t \in Tasks :
        /\ pc[t] = "raised"
        /\ Cardinality(RowsOf(m[t].uid)) = 1

\* C9: with one handler at a time, a water, sun or daily handler that takes
\* the blocked branch writes nothing, goes straight to its return after one
\* reply, and successive blocked water attempts report a remaining wait
\* WATER_COOLDOWN - (now - last_water) that does not grow
WaterBlocked(i) == hist[i].kind = "water" /\ hist[i].res = "blocked"

C9_Returned ==
    \A t \in Tasks :
        ( /\ pc[t] = "done" /\ m[t].text \in MutKinds
          /\ LastHist.res = "blocked" )
        => /\ replies[t] = <<Reply("wait", LastHist.remain)>>
           /\ Stored(m[t].uid) = u[t]
           /\ m[t].text = "water" =>
                 LastHist.remain =
                   WATER_COOLDOWN - (now[t] - Stored(m[t].uid).last_water)

C9_RemainShrinks ==
    \A i \in 1..Len(hist) : \A j \in (i + 1)..Len(hist) :
        ( /\ WaterBlocked(i) /\ WaterBlocked(j)
          /\ hist[i].uid = hist[j].uid
          /\ \A k \in i..j : (hist[k].uid = hist[i].uid /\ hist[k].kind = "water")
                                 => hist[k].res = "blocked" )
        => hist[j].now >= hist[i].now /\ hist[j].remain <= hist[i].remain

C9_Step ==
    \A t \in Tasks :
        (pc'[t] # pc[t] /\ (pc[t] = "answer_wait" \/ pc'[t] = "answer_wait"))
        => /\ users' = users
           /\ last_sun' = last_sun
           /\ pc[t] = "answer_wait" => pc'[t] \in {"done", "failed"}

C9_BlockedNoEffect ==
    [](C9_Returned /\ C9_RemainShrinks) /\ [][C9_Step]_vars

\* a second blocked water attempt, later than the first, that has returned
\* with a smaller remaining wait
C9_Witness ==
    /\ Len(hist) >= 2
    /\ WaterBlocked(Len(hist) - 1) /\ WaterBlocked(Len(hist))
    /\ hist[Len(hist)].now > hist[Len(hist) - 1].now
    /\ hist[Len(hist)].remain < hist[Len(hist) - 1].remain
    /\ \E t \in Tasks : pc[t] = "done" /\ m[t].text = "water"

\* C10: with one handler at a time, the write of a successful daily handler
\* of a user read at level L adds 1 + L div 5 to sun, 1 + L div 6 to water
\* and 5 + L to exp, sets last_daily to now and leaves the other fields
C10_DailyReward ==
    \A t \in Tasks :
        (pc[t] = "answer_ok" /\ m[t].text = "daily")
        => Stored(m[t].uid) =
             [u[t] EXCEPT !.sun = @ + 1 + (u[t].level \div 5),
                          !.water = @ + 1 + (u[t].level \div 6),
                          !.exp = @ + 5 + u[t].level,
                          !.last_daily = now[t]]

\* the daily reward of a level 10 user written: sun +3, water +2, exp +15
C10_Witness ==
    \E t \in Tasks :
        /\ pc[t] = "answer_ok" /\ m[t].text = "daily"
        /\ u[t].level = 10
        /\ Stored(m[t].uid).sun = u[t].sun + 3
        /\ Stored(m[t].uid).water = u[t].water + 2
        /\ Stored(m[t].uid).exp = u[t].exp + 15
        /\ Stored(m[t].uid).last_daily = now[t]

\* the now of the latest sun handler that passed its cooldown test, 0 if none
RECURSIVE LastSunOk(_)
LastSunOk(i) ==
    IF i = 0 THEN 0
    ELSE IF hist[i].kind = "sun" /\ hist[i].res = "ok" THEN hist[i].now
    ELSE LastSunOk(i - 1)

\* C11: with one handler at a time, the write of a successful water handler
\* adds 1 to water and 2 to exp, sets last_water to now and leaves the other
\* fields and the sun cooldown; when the handler has returned, sun has grown
\* by one per level gained
C11_WaterReward ==
    \A t \in Tasks :
        /\ (pc[t] = "answer_ok" /\ m[t].text = "water")
           => /\ Stored(m[t].uid) =
                   [u[t] EXCEPT !.water = @ + 1, !.exp = @ + 2,
                                !.last_water = now[t]]
              /\ last_sun = LastSunOk(Len(hist) - 1)
        /\ (pc[t] = "done" /\ m[t].text = "water" /\ LastHist.res = "ok")
           => /\ Stored(m[t].uid).sun - u[t].sun
                   = Stored(m[t].uid).level - u[t].level
              /\ Stored(m[t].uid).user_id = u[t].user_id
              /\ Stored(m[t].uid).created = u[t].created
              /\ Stored(m[t].uid).last_daily = u[t].last_daily
              /\ Stored(m[t].uid).last_water = now[t]
              /\ last_sun = LastSunOk(Len(hist))

\* the first water of a new user written: water 1, exp 2
C11_Witness ==
    \E t \in Tasks :
        /\ pc[t] = "answer_ok" /\ m[t].text = "water"
        /\ u[t].level = 1 /\ u[t].exp = 0 /\ u[t].water = 0
        /\ Stored(m[t].uid).water = 1 /\ Stored(m[t].uid).exp = 2
        /\ Stored(m[t].uid).last_water = now[t]

\* exp_needed_for(a) + ... + exp_needed_for(b)
RECURSIVE SumNeeded(_, _)
SumNeeded(a, b) == IF a > b THEN 0 ELSE exp_needed_for(a) + SumNeeded(a + 1, b)

\* task t is in, or has returned from, the check_level_up of a handler
InLevelUp(t) ==
    \/ pc[t] \in {"clu_loop", "clu_update"}
    \/ /\ pc[t] = "done" /\ m[t].text \in MutKinds
       /\ replies[t] # <<>> /\ replies[t][1].text # "wait"

\* C12: a successful handler answers with its success reply first and then
\* with one level-up notification per level gained, in ascending level
\* order; each level gained adds 1 to sun and to water and takes
\* exp_needed_for(old level) from exp
C12_ReplyOrder ==
    \A t \in Tasks :
        /\ pc[t] \in {"update", "answer_ok"} => replies[t] = <<>>
        /\ pc[t] = "clu_get" => replies[t] = <<Reply(OkText(m[t].text), 0)>>
        /\ InLevelUp(t) =>
             LET gained == loc[t].level - u[t].level
             IN  /\ gained >= 0
                 /\ replies[t][1] = Reply(OkText(m[t].text), 0)
                 /\ Len(replies[t]) = 1 + gained
                 /\ \A i \in 1..gained :
                       replies[t][i + 1] = Reply("levelup", u[t].level + i)
                 /\ loc[t].sun = u[t].sun + gained
                 /\ loc[t].water = u[t].water + gained
                 /\ loc[t].exp =
                       u[t].exp - SumNeeded(u[t].level, loc[t].level - 1)

\* a handler that has returned after its success reply and two or more
\* level-up notifications
C12_Witness ==
    \E t \in Tasks :
        /\ pc[t] = "done" /\ m[t].text \in MutKinds
        /\ Len(replies[t]) >= 3
        /\ replies[t][2].text = "levelup"
        /\ replies[t][3] = Reply("levelup", replies[t][2].n + 1)

\* the experience a successful handler grants to a user read at level lv
Grant(k, lv) == IF k = "daily" THEN 5 + lv ELSE 2

\* C13: with one handler at a time, a handler of a user at MAX_LEVEL that
\* passes its cooldown test writes its full experience grant, and its
\* check_level_up changes nothing and sends no notification
C13_MaxLevelAccrues ==
    \A t \in Tasks :
        /\ (pc[t] = "answer_ok" /\ u[t].level = MAX_LEVEL)
           => /\ Stored(m[t].uid).exp = u[t].exp + Grant(m[t].text, MAX_LEVEL)
              /\ Stored(m[t].uid).level = MAX_LEVEL
        /\ ( /\ pc[t] = "done" /\ m[t].text \in MutKinds
             /\ LastHist.res = "ok" /\ u[t].level = MAX_LEVEL )
           => /\ Stored(m[t].uid) = u[t]
              /\ replies[t] = <<Reply(OkText(m[t].text), 0)>>

\* a handler that has returned leaving a MAX_LEVEL user with more experience
\* than exp_needed_for(MAX_LEVEL)
C13_Witness ==
    \E t \in Tasks :
        /\ pc[t] = "done" /\ m[t].text \in MutKinds
        /\ LastHist.res = "ok"
        /\ u[t].level = MAX_LEVEL
        /\ Stored(m[t].uid).level = MAX_LEVEL
        /\ Stored(m[t].uid).exp > exp_needed_for(MAX_LEVEL)
        /\ Len(replies[t]) = 1

\* C14: no stored row has a negative exp, sun or water
C14_NonNegative ==
    \A r \in users : r.exp >= 0 /\ r.sun >= 0 /\ r.water >= 0

\* a check_level_up that took experience off and wrote exp 0
C14_Witness ==
    \E t \in Tasks :
        /\ pc[t] = "done" /\ m[t].text \in MutKinds
        /\ Len(replies[t]) > 1
        /\ loc[t].exp = 0
        /\ Stored(m[t].uid).exp = 0

\* a water or sun handler has returned after its check_level_up read the user
\* at level 1 with an experience, built from grants of 2, that the last grant
\* took to exp_needed_for(1) or beyond
FirstLevelUp(t) ==
    /\ pc[t] = "done" /\ m[t].text \in {"water", "sun"}
    /\ LastHist.res = "ok"
    /\ u[t].level = 1 /\ u[t].exp % 2 = 0
    /\ u[t].exp >= exp_needed_for(1) /\ u[t].exp - 2 < exp_needed_for(1)

\* C15 as stated: the level-up to level 2 leaves a stored exp of 0
C15_PostLevelExpZero ==
    \A t \in Tasks :
        FirstLevelUp(t)
        => /\ replies[t] = <<Reply(OkText(m[t].text), 0), Reply("levelup", 2)>>
           /\ Stored(m[t].uid).level = 2
           /\ Stored(m[t].uid).exp = 0
           /\ Stored(m[t].uid).sun = u[t].sun + 1
           /\ Stored(m[t].uid).water = u[t].water + 1

\* C15: a level 1 user fed by water and sun only reaches exp_needed_for(1) = 5
\* at exp 6; that triggers exactly one level-up to level 2, the stored exp
\* after it is the excess 6 - 5 = 1, and sun and water each gain 1 on top of
\* the direct rewards
C15_PostLevelExpCarried ==
    \A t \in Tasks :
        FirstLevelUp(t)
        => /\ replies[t] = <<Reply(OkText(m[t].text), 0), Reply("levelup", 2)>>
           /\ u[t].exp = 6
           /\ Stored(m[t].uid).level = 2
           /\ Stored(m[t].uid).exp = 1
           /\ Stored(m[t].uid).sun = u[t].sun + 1
           /\ Stored(m[t].uid).water = u[t].water + 1

C15_Witness ==
    \E t \in Tasks :
        /\ FirstLevelUp(t)
        /\ Stored(m[t].uid).level = 2
        /\ Stored(m[t].uid).exp = 1

\* task t takes a step of its handler
Acts(t) ==
    /\ Running(t)
    /\ <<pc[t], u[t], loc[t], replies[t]>>' # <<pc[t], u[t], loc[t], replies[t]>>

\* C16: a step of a status or profile handler whose user has a row changes no
\* row, touches no cooldown state and never takes the cooldown branch (it
\* reads, answers, or stops on an exception); a step
\* of a roadmap, staking or fallback handler only answers: it reads no row,
\* writes none and creates none
C16_ReadOnly ==
    [][\A t \in Tasks :
          Acts(t) =>
            /\ (m[t].text \in ReadKinds /\ HasRow(users, m[t].uid))
               => /\ users' = users /\ last_sun' = last_sun /\ hist' = hist
                  /\ pc'[t] \in {"get_user", "answer_info", "done",
                                 "failed", "raised"}
            /\ m[t].text \in StaticKinds
               => /\ users' = users /\ last_sun' = last_sun /\ hist' = hist
                  /\ u'[t] = NoRow
                  /\ pc'[t] \in {"done", "failed"}]_vars

\* a status or profile handler has answered while the water cooldown of its
\* user is running, and the row is as it read it
C16_Witness ==
    \E t \in Tasks :
        /\ pc[t] = "done" /\ m[t].text \in ReadKinds
        /\ Len(replies[t]) = 1
        /\ u[t] # NoRow /\ Stored(m[t].uid) = u[t]
        /\ clock - u[t].last_water < WATER_COOLDOWN

\* task t has sent the success reply of its gated action
Succeeded(t) ==
    /\ m[t].text \in MutKinds
    /\ replies[t] # <<>>
    /\ replies[t][1].text = OkText(m[t].text)

\* C17: two water handlers, or two daily handlers, of one user that both
\* reported success took their now timestamps at least the cooldown apart
C17_MinSeparation ==
    \A s, t \in Tasks :
        ( /\ s # t
          /\ m[s] = m[t] /\ m[t].text \in {"water", "daily"}
          /\ Succeeded(s) /\ Succeeded(t) /\ now[s] <= now[t] )
        => now[t] - now[s] >= Cooldown(m[t].text)

\* the timestamp the gated action of history entry e is compared with has
\* been set to the now of e
CooldownReset(e) == LastUse(e.kind, Stored(e.uid), last_sun) = e.now

\* experience has been stored for the user of history entry e, whose row was
\* created with level 1 and exp 0
RewardPersisted(e) == Stored(e.uid).exp > 0 \/ Stored(e.uid).level > 1

\* C18: when every handler has stopped and a new user's gated action is the
\* only one that passed its cooldown test, its cooldown has been reset to its
\* now if and only if its reward has been stored
C18_ResetWithReward ==
    ( /\ \A t \in Tasks : ~Running(t)
      /\ Len(hist) = 1 /\ hist[1].res = "ok" )
    => (CooldownReset(hist[1]) <=> RewardPersisted(hist[1]))

\* C19: check_level_up takes at most MAX_LEVEL - level turns of its loop,
\* level being the level it read, and the loop always ends: control reaches
\* the final update_user call, unless an await of the loop raises
C19_LoopTerminates ==
    /\ [](\A t \in Tasks :
            pc[t] \in {"clu_loop", "clu_update"}
            => /\ u[t].level \in 1 .. MAX_LEVEL
               /\ Len(replies[t]) - 1 = loc[t].level - u[t].level
               /\ Len(replies[t]) - 1 <= MAX_LEVEL - u[t].level)
    /\ \A t \in Tasks :
          (pc[t] = "clu_loop") ~> (pc[t] \in {"clu_update", "failed"})

\* a check_level_up that read level 1 has taken MAX_LEVEL - 1 turns of the
\* loop and has made its final write
C19_Witness ==
    \E t \in Tasks :
        /\ pc[t] = "done" /\ m[t].text \in MutKinds
        /\ u[t].level = 1
        /\ Len(replies[t]) - 1 = MAX_LEVEL - 1
        /\ Stored(m[t].uid).level = MAX_LEVEL

\* all the experience a row stands for: what it holds plus what its levels
\* have cost
Total(row) == row.exp + SumNeeded(1, row.level - 1)

\* task t makes the reward write of its handler
RewardWrite(t) == pc[t] = "update" /\ pc'[t] = "answer_ok"
\* task t makes the final write of check_level_up
LevelWrite(t) == pc[t] = "clu_update" /\ pc'[t] = "done"

\* C20: with one handler at a time, a row is created holding no experience,
\* level 1 and no bonus; a reward write adds to exp plus the sum of
\* exp_needed_for over the levels passed exactly the grant of the action (2
\* for water, 2 for sun, 5 + level for daily) and leaves the level alone; a
\* check_level_up write keeps that sum and adds to sun and to water exactly
\* the number of levels gained; no other step changes a row.  So after every
\* action the sum is the total granted and each bonus count is level - 1.
C20_Conserved ==
    [][LET a == Stored(1)
           b == get_user(users', 1)
       IN  /\ \A t \in Tasks :
                 RewardWrite(t)
                 => /\ Total(b) = Total(a) + Grant(m[t].text, a.level)
                    /\ b.level = a.level
                    /\ b.sun - a.sun = Reward(m[t].text, Locals(a)).sun - a.sun
                    /\ b.water - a.water
                          = Reward(m[t].text, Locals(a)).water - a.water
           /\ \A t \in Tasks :
                 LevelWrite(t)
                 => /\ Total(b) = Total(a)
                    /\ b.level >= a.level
                    /\ b.sun - a.sun = b.level - a.level
                    /\ b.water - a.water = b.level - a.level
           /\ (\A t \in Tasks : ~RewardWrite(t) /\ ~LevelWrite(t))
              => IF a # NoRow THEN b = a
                 ELSE b # NoRow => /\ Total(b) = 0 /\ b.level = 1
                                   /\ b.sun = 0 /\ b.water = 0
      ]_vars

\* a user created in this run has completed a daily bonus as the first gated
\* action: granted 5 + 1, level 2 with exp 1, one bonus on top of the direct
\* reward of 1 sun and 1 water
C20_Witness ==
    \E t \in Tasks :
        /\ pc[t] = "done" /\ m[t].text = "daily"
        /\ Len(hist) = 1 /\ hist[1].res = "ok"
        /\ Stored(1).created >= Clock0
        /\ Stored(1).level = 2
        /\ Total(Stored(1)) = Grant("daily", 1)
        /\ Stored(1).sun = 1 + (Stored(1).level - 1)
        /\ Stored(1).water = 1 + (Stored(1).level - 1)

====
